---- MODULE Spec2Model ----
(***************************************************************************)
(* Model of the two scheduler filters of the repository:                   *)
(*   Cinder/target_host_filter.py   TargetHostFilter.backend_passes        *)
(*   Nova/volume_affinity_filter.py VolumeAffinityFilter.host_passes       *)
(*                                                                         *)
(* Python strings are sequences of one-character strings, so that split,   *)
(* prefixes and letter case are computed and not assumed.  An evaluation   *)
(* of host_passes is two steps, because it blocks on the Cinder lookup:    *)
(* the part up to the call of volumes.get, and the part from its reply to  *)
(* the return.  Cinder may change in between, and other evaluations run.   *)
(***************************************************************************)
EXTENDS Integers, Sequences, FiniteSets, TLC

\* ---------------------------------------------------------------- bounds
NumEvals   == 2     \* evaluations the scheduler runs concurrently
MaxLen     == 3     \* longest identity / hint string enumerated
MaxChanges == 1     \* changes of the Cinder state during one pass

\* ------------------------------------------------------- python values
Alphabet == {"a", "A", "@", "#"}

Strs(n) == UNION {[1..k -> Alphabet] : k \in 0..n}

\* A value that may be None: the hint value, the volume's host attribute.
PyNone == [isNone |-> TRUE, str |-> <<>>]

PyStr(s) == [isNone |-> FALSE, str |-> s]

\* bool(v) of Python for None and str: `not x` is ~Truthy(x).
Truthy(v) == (~v.isNone) /\ v.str # <<>>

\* A dict that may be None (scheduler_hints).
NoDict == [isNone |-> TRUE, dict |-> <<>>]

Dict(d) == [isNone |-> FALSE, dict |-> d]

\* dict.get(key, None)
DictGet(d, key) == IF key \in DOMAIN d THEN PyStr(d[key]) ELSE PyNone

\* str.split(sep) for a one-character separator: the list of the pieces.
RECURSIVE Split(_, _)
Split(s, sep) ==
  IF \E i \in 1..Len(s) : s[i] = sep
  THEN LET i == CHOOSE j \in 1..Len(s) :
                  s[j] = sep /\ \A k \in 1..(j - 1) : s[k] # sep
       IN  <<SubSeq(s, 1, i - 1)>> \o Split(SubSeq(s, i + 1, Len(s)), sep)
  ELSE <<s>>

\* What a call gives back: a returned boolean or a raised exception.
Return(b) == [kind |-> "return", val |-> b, exc |-> "None"]

Raised(e) == [kind |-> "raise", val |-> FALSE, exc |-> e]

NoResult == [kind |-> "none", val |-> FALSE, exc |-> "None"]

\* ---------------------------------------------------- TargetHostFilter
HINT_KEYWORD == "target_host"

\* volume_utils.extract_host(host, 'host'): the pool ('#...') is cut off,
\* then the backend ('@...').
extract_host(host) == Split(Split(host, "#")[1], "@")[1]

\* scheduler_hints = filter_properties.get('scheduler_hints') or {}
HintsOrEmpty(filter_properties) ==
  IF filter_properties.scheduler_hints.isNone
  THEN <<>>
  ELSE filter_properties.scheduler_hints.dict

\* Variant: the hint is tested with `is None`, so '' counts as a hint.
backend_passes_isnone(backend_id, filter_properties) ==
  LET scheduler_hints == HintsOrEmpty(filter_properties)
      target_host     == DictGet(scheduler_hints, HINT_KEYWORD)
  IN  IF target_host.isNone
      THEN TRUE
      ELSE extract_host(backend_id) = target_host.str

\* Variant: the comparison is startswith instead of ==.
backend_passes_prefix(backend_id, filter_properties) ==
  LET scheduler_hints == HintsOrEmpty(filter_properties)
      target_host     == DictGet(scheduler_hints, HINT_KEYWORD)
      backend_host    == extract_host(backend_id)
  IN  IF ~Truthy(target_host)
      THEN TRUE
      ELSE /\ Len(target_host.str) <= Len(backend_host)
           /\ SubSeq(backend_host, 1, Len(target_host.str)) = target_host.str

\* Variant: the hint is matched against the raw backend_id as well.
backend_passes_raw(backend_id, filter_properties) ==
  LET scheduler_hints == HintsOrEmpty(filter_properties)
      target_host     == DictGet(scheduler_hints, HINT_KEYWORD)
  IN  IF ~Truthy(target_host)
      THEN TRUE
      ELSE \/ extract_host(backend_id) = target_host.str
           \/ backend_id = target_host.str

backend_passes(backend_id, filter_properties) ==
  LET scheduler_hints == HintsOrEmpty(filter_properties)
      target_host     == DictGet(scheduler_hints, HINT_KEYWORD)
  IN  IF ~Truthy(target_host)
      THEN TRUE
      ELSE extract_host(backend_id) = target_host.str

\* ------------------------------------------------ VolumeAffinityFilter
\* RequestSpec.get_scheduler_hint(name): None when the hints are unset.
get_scheduler_hint(spec_obj, name) ==
  IF spec_obj.scheduler_hints.isNone
  THEN PyNone
  ELSE DictGet(spec_obj.scheduler_hints.dict, name)

\* A request context, or None (isSet = FALSE).
NoCtx == [isSet |-> FALSE, user |-> "", is_admin |-> FALSE]

Ctx(u, adm) == [isSet |-> TRUE, user |-> u, is_admin |-> adm]

\* RequestContext.elevated(): a copy of the context with is_admin set.
elevated(ctx) == [ctx EXCEPT !.is_admin = TRUE]

\* The exception classes the handlers tell apart, each with its base.
ExcParent ==
  [NotFound        |-> "ClientException",
   Forbidden       |-> "ClientException",
   ClientException |-> "Exception",
   ConnectionError |-> "OSError",
   TimeoutError    |-> "OSError",
   OSError         |-> "Exception",
   AttributeError  |-> "Exception",
   Exception       |-> "BaseException"]

RECURSIVE IsInstance(_, _)
IsInstance(c, cls) ==
  \/ c = cls
  \/ c \in DOMAIN ExcParent /\ IsInstance(ExcParent[c], cls)

\* What Cinder answers to volumes.get: a volume, whose host attribute may
\* be missing, or an exception.
Ok(attr) == [exc |-> "None", attr |-> attr]

Raise(e) == [exc |-> e, attr |-> PyNone]

NoReply == [exc |-> "NoCall", attr |-> PyNone]

\* cinder.cinderclient(ctxt).volumes.get(volume_id)
volumes_get(state, volume_id) ==
  IF volume_id \in DOMAIN state THEN state[volume_id] ELSE Raise("NotFound")

\* The call that line 59-60 issues.
\* Variant: the lookup goes out with the caller's own context.
LookupRequest_plain(spec_obj, volume_id) ==
  [ctxt |-> spec_obj.context, volume_id |-> volume_id.str]

LookupRequest(spec_obj, volume_id) ==
  [ctxt |-> elevated(spec_obj.context), volume_id |-> volume_id.str]

\* Lines 62-80: from the volume to the decision.
\* Variant: a volume without a host lets the candidate through.
TryBody_failopen(host, volume) ==
  LET volume_host == volume.attr
  IN  IF ~Truthy(volume_host)
      THEN Return(TRUE)
      ELSE LET volume_host_name == Split(volume_host.str, "@")[1]
           IN  IF host = volume_host_name THEN Return(TRUE) ELSE Return(FALSE)

\* Variant: the owning identity is cut at the pool delimiter only.
TryBody_pool(host, volume) ==
  LET volume_host == volume.attr
  IN  IF ~Truthy(volume_host)
      THEN Return(FALSE)
      ELSE LET volume_host_name == Split(volume_host.str, "#")[1]
           IN  IF host = volume_host_name THEN Return(TRUE) ELSE Return(FALSE)

TryBody(host, volume) ==
  LET volume_host == volume.attr
  IN  IF ~Truthy(volume_host)
      THEN Return(FALSE)
      ELSE LET volume_host_name == Split(volume_host.str, "@")[1]
           IN  IF host = volume_host_name THEN Return(TRUE) ELSE Return(FALSE)

\* Lines 82-88: the except clauses, tried in order.
\* Variant: the second clause catches the client's own errors only.
ExceptHandlers_narrow(e) ==
  IF IsInstance(e, "NotFound") THEN Return(FALSE)
  ELSE IF IsInstance(e, "ClientException") THEN Return(FALSE)
  ELSE Raised(e)

ExceptHandlers(e) ==
  IF IsInstance(e, "NotFound") THEN Return(FALSE)
  ELSE IF IsInstance(e, "Exception") THEN Return(FALSE)
  ELSE Raised(e)

\* Lines 60-88 once the lookup has answered.
AfterLookup(host, response) ==
  IF response.exc # "None"
  THEN ExceptHandlers(response.exc)
  ELSE TryBody(host, response)

\* ------------------------------------------------------------ the state
VARIABLES
  pc,        \* per evaluation: "idle", "waiting" (on Cinder) or "returned"
  args,      \* per evaluation: what the scheduler called the filter with
  frames,    \* the locals of the running calls of host_passes
  ret,       \* per evaluation: what the call gave back to the scheduler
  cinder,    \* Cinder: volume id -> what volumes.get answers now
  lookups,   \* per evaluation: the lookups it has sent to Cinder
  reply,     \* per evaluation: what Cinder answered
  changes    \* how often Cinder has changed

vars == <<pc, args, frames, ret, cinder, lookups, reply, changes>>

Procs == 1..NumEvals

Request(h, c) == [scheduler_hints |-> h, context |-> c]

NoArgs == [filter |-> "none", candidate |-> <<>>,
           request |-> Request(NoDict, NoCtx)]

NoFrame == [host_state |-> <<>>, spec_obj |-> Request(NoDict, NoCtx),
            volume_id |-> PyNone]

\* Variant: the locals are kept on the filter object, one for all calls.
Frame_shared(p) == 1

\* Each call of host_passes has its own locals: the filter object has no
\* attributes and the method assigns to none.
Frame(p) == p

\* ----------------------------------------------------------- the inputs
UserCtx == Ctx("u", FALSE)

AdminCtx == Ctx("u", TRUE)

VolumeIds == {<<"v">>}

LookupErrors == {"NotFound", "Forbidden", "ClientException",
                 "ConnectionError", "TimeoutError", "Exception"}

\* "nodeA@backend1#poolX" in the alphabet of the model.
ExampleIdentity == <<"a", "@", "A", "#", "a">>

\* The concurrent pass: a few hosts, every shape of the hint map.
SmallHosts == {<<"a">>, <<"A">>}

SmallBackends == {ExampleIdentity, <<"A">>}

SmallRequests ==
  {Request(NoDict, UserCtx),
   Request(Dict(<<>>), UserCtx),
   Request(Dict(("target_host" :> <<>>) @@ ("same_volume_host" :> <<>>)),
           UserCtx),
   Request(Dict("target_host" :> <<"a">>), UserCtx),
   Request(Dict("same_volume_host" :> <<"v">>), UserCtx),
   Request(Dict("same_volume_host" :> <<"v">>), NoCtx)}

SmallResponses ==
  {Ok(PyStr(ExampleIdentity)), Ok(PyNone),
   Raise("NotFound"), Raise("ConnectionError")}

\* The direct filter alone: every identity and every hint up to MaxLen.
AllBackends == Strs(MaxLen)

DirectProps ==
  {Request(NoDict, UserCtx), Request(Dict(<<>>), UserCtx),
   Request(Dict("same_volume_host" :> <<"v">>), UserCtx)}
  \cup {Request(Dict("target_host" :> s), UserCtx) : s \in Strs(MaxLen)}

\* The affinity filter alone: every host, every owning identity.
AllHosts == Strs(MaxLen)

AffinitySpecs ==
  {Request(NoDict, UserCtx),
   Request(Dict(<<>>), UserCtx),
   Request(Dict("target_host" :> <<"a">>), UserCtx),
   Request(Dict("same_volume_host" :> <<>>), UserCtx),
   Request(Dict("same_volume_host" :> <<"v">>), UserCtx),
   Request(Dict("same_volume_host" :> <<"v">>), AdminCtx),
   Request(Dict("same_volume_host" :> <<"v">>), NoCtx),
   Request(Dict("same_volume_host" :> <<"w">>), UserCtx)}

AllResponses ==
  {Ok(PyNone), Ok(PyStr(ExampleIdentity))}
  \cup {Ok(PyStr(s)) : s \in Strs(MaxLen)}
  \cup {Raise(e) : e \in LookupErrors}

\* ---------------------------------------------------------- the actions
InitWith(Responses) ==
  /\ pc = [p \in Procs |-> "idle"]
  /\ args = [p \in Procs |-> NoArgs]
  /\ frames = [p \in Procs |-> NoFrame]
  /\ ret = [p \in Procs |-> NoResult]
  /\ cinder \in [VolumeIds -> Responses]
  /\ lookups = [p \in Procs |-> <<>>]
  /\ reply = [p \in Procs |-> NoReply]
  /\ changes = 0

\* The scheduler calls TargetHostFilter.backend_passes: no I/O, one step.
BackendPasses(p, Backends, Props) ==
  /\ pc[p] = "idle"
  /\ \E b \in Backends, fp \in Props :
       /\ args' = [args EXCEPT ![p] =
                     [filter |-> "target", candidate |-> b, request |-> fp]]
       /\ ret' = [ret EXCEPT ![p] = Return(backend_passes(b, fp))]
  /\ pc' = [pc EXCEPT ![p] = "returned"]
  /\ UNCHANGED <<frames, cinder, lookups, reply, changes>>

\* The scheduler calls VolumeAffinityFilter.host_passes: lines 53-60, up to
\* the moment volumes.get has been sent.
HostPassesCall(p, Hosts, Specs) ==
  /\ pc[p] = "idle"
  /\ \E h \in Hosts, s \in Specs :
       LET volume_id == get_scheduler_hint(s, "same_volume_host")
       IN  /\ args' = [args EXCEPT ![p] =
                         [filter |-> "affinity", candidate |-> h,
                          request |-> s]]
           /\ frames' = [frames EXCEPT ![Frame(p)] =
                           [host_state |-> h, spec_obj |-> s,
                            volume_id |-> volume_id]]
           /\ IF ~Truthy(volume_id)
              THEN /\ ret' = [ret EXCEPT ![p] = Return(TRUE)]
                   /\ pc' = [pc EXCEPT ![p] = "returned"]
                   /\ UNCHANGED lookups
              ELSE IF ~s.context.isSet
              THEN \* None has no elevated(): AttributeError inside the try
                   /\ ret' = [ret EXCEPT ![p] =
                                ExceptHandlers("AttributeError")]
                   /\ pc' = [pc EXCEPT ![p] = "returned"]
                   /\ UNCHANGED lookups
              ELSE /\ lookups' = [lookups EXCEPT ![p] =
                                    Append(@, LookupRequest(s, volume_id))]
                   /\ pc' = [pc EXCEPT ![p] = "waiting"]
                   /\ UNCHANGED ret
  /\ UNCHANGED <<cinder, reply, changes>>

\* Variant: a failed lookup is sent again.
HostPassesResume_retry(p) ==
  /\ pc[p] = "waiting"
  /\ LET f      == frames[Frame(p)]
         req    == lookups[p][Len(lookups[p])]
         volume == volumes_get(cinder, req.volume_id)
     IN  IF volume.exc # "None" /\ Len(lookups[p]) < 2
         THEN /\ lookups' = [lookups EXCEPT ![p] = Append(@, req)]
              /\ UNCHANGED <<pc, ret, reply>>
         ELSE /\ reply' = [reply EXCEPT ![p] = volume]
              /\ ret' = [ret EXCEPT ![p] = AfterLookup(f.host_state, volume)]
              /\ pc' = [pc EXCEPT ![p] = "returned"]
              /\ UNCHANGED lookups
  /\ UNCHANGED <<args, frames, cinder, changes>>

\* Variant: the filter remembers that a host has passed and lets no
\* second one through.
HostPassesResume_once(p) ==
  /\ pc[p] = "waiting"
  /\ LET f      == frames[Frame(p)]
         req    == lookups[p][Len(lookups[p])]
         volume == volumes_get(cinder, req.volume_id)
         passed == \E q \in Procs \ {p} :
                     /\ pc[q] = "returned"
                     /\ args[q].filter = "affinity"
                     /\ lookups[q] # <<>>
                     /\ ret[q] = Return(TRUE)
     IN  /\ reply' = [reply EXCEPT ![p] = volume]
         /\ ret' = [ret EXCEPT ![p] =
                      IF passed THEN Return(FALSE)
                      ELSE AfterLookup(f.host_state, volume)]
  /\ pc' = [pc EXCEPT ![p] = "returned"]
  /\ UNCHANGED <<args, frames, cinder, lookups, changes>>

\* Cinder answers and host_passes runs to its return: lines 60-88.
HostPassesResume(p) ==
  /\ pc[p] = "waiting"
  /\ LET f      == frames[Frame(p)]
         req    == lookups[p][Len(lookups[p])]
         volume == volumes_get(cinder, req.volume_id)
     IN  /\ reply' = [reply EXCEPT ![p] = volume]
         /\ ret' = [ret EXCEPT ![p] = AfterLookup(f.host_state, volume)]
  /\ pc' = [pc EXCEPT ![p] = "returned"]
  /\ UNCHANGED <<args, frames, cinder, lookups, changes>>

\* The volume moves, disappears, or Cinder becomes unreachable.
CinderChange(Responses) ==
  /\ changes < MaxChanges
  /\ \E v \in DOMAIN cinder :
       \E r \in Responses \ {cinder[v]} :
         cinder' = [cinder EXCEPT ![v] = r]
  /\ changes' = changes + 1
  /\ UNCHANGED <<pc, args, frames, ret, lookups, reply>>

\* ------------------------------------------------- the specifications
\* A filtering pass: both filters, many candidates, Cinder changing.
Init == InitWith(SmallResponses)

Next ==
  \/ \E p \in Procs : BackendPasses(p, SmallBackends, SmallRequests)
  \/ \E p \in Procs : HostPassesCall(p, SmallHosts, SmallRequests)
  \/ \E p \in Procs : HostPassesResume(p)
  \/ CinderChange(SmallResponses)

Spec == Init /\ [][Next]_vars

\* backend_passes on every identity and hint.
InitDirect == InitWith({Raise("NotFound")})

NextDirect == BackendPasses(1, AllBackends, DirectProps)

SpecDirect == InitDirect /\ [][NextDirect]_vars

\* host_passes on every host and every answer of Cinder.
InitAffinity == InitWith(AllResponses)

NextAffinity ==
  \/ HostPassesCall(1, AllHosts, AffinitySpecs)
  \/ HostPassesResume(1)

SpecAffinity == InitAffinity /\ [][NextAffinity]_vars

TypeOK ==
  /\ pc \in [Procs -> {"idle", "waiting", "returned"}]
  /\ \A p \in Procs : ret[p].kind \in {"none", "return", "raise"}
  /\ changes \in 0..MaxChanges

\* ===================================================== the properties
Returned(p, f) == pc[p] = "returned" /\ args[p].filter = f

\* The request carries a usable value for the hint `key`.
HintSet(req, key) ==
  /\ ~req.scheduler_hints.isNone
  /\ key \in DOMAIN req.scheduler_hints.dict
  /\ req.scheduler_hints.dict[key] # <<>>

HintValue(req, key) == req.scheduler_hints.dict[key]

\* The part of s in front of its first character out of Seps.
BeforeFirst(s, Seps) ==
  LET at == {i \in 1..Len(s) : s[i] \in Seps}
      n  == IF at = {} THEN Len(s) + 1
            ELSE CHOOSE i \in at : \A j \in at : i <= j
  IN  SubSeq(s, 1, n - 1)

HasDelimiter(s) == \E i \in 1..Len(s) : s[i] \in {"@", "#"}

IsProperPrefix(a, b) == Len(a) < Len(b) /\ SubSeq(b, 1, Len(a)) = a

Lower(c) == IF c = "A" THEN "a" ELSE c

SameButCase(a, b) ==
  /\ a # b
  /\ Len(a) = Len(b)
  /\ \A i \in 1..Len(a) : Lower(a[i]) = Lower(b[i])

\* The lookup of evaluation p gave no proof of affinity.
LookupRaised(p) == reply[p].exc \in LookupErrors

AttributeMissing(p) == reply[p].exc = "None" /\ reply[p].attr.isNone

AttributeEmpty(p) ==
  reply[p].exc = "None" /\ ~reply[p].attr.isNone /\ reply[p].attr.str = <<>>

\* C1: host_passes fails closed. With the same_volume_host hint set, a
\* lookup that raises not-found, raises anything else, or gives a volume
\* whose 'os-vol-host-attr:host' is absent or empty makes host_passes
\* return False, whatever the candidate host is.
C1_FailsClosed ==
  \A p \in Procs :
    ( /\ Returned(p, "affinity")
      /\ HintSet(args[p].request, "same_volume_host")
      /\ (LookupRaised(p) \/ AttributeMissing(p) \/ AttributeEmpty(p)) )
    => ret[p] = Return(FALSE)

C1_Witness ==
  /\ Returned(1, "affinity")
  /\ HintSet(args[1].request, "same_volume_host")
  /\ AttributeEmpty(1)
  /\ args[1].candidate = <<>>
  /\ ret[1] = Return(FALSE)

\* C2: without a relevant hint (no hint map, empty map, key missing, empty
\* value) both filters return True for every candidate.
C2_NoHintPasses ==
  \A p \in Procs :
    /\ ( Returned(p, "target") /\ ~HintSet(args[p].request, "target_host") )
         => ret[p] = Return(TRUE)
    /\ ( Returned(p, "affinity")
         /\ ~HintSet(args[p].request, "same_volume_host") )
         => ret[p] = Return(TRUE)

C2_Witness ==
  /\ Returned(1, "target")
  /\ args[1].request.scheduler_hints.isNone
  /\ ret[1] = Return(TRUE)
  /\ Returned(2, "affinity")
  /\ ~args[2].request.scheduler_hints.isNone
  /\ "same_volume_host" \in DOMAIN args[2].request.scheduler_hints.dict
  /\ ~HintSet(args[2].request, "same_volume_host")
  /\ ret[2] = Return(TRUE)

\* C3: an error of the lookup other than not-found (network, permission,
\* timeout, unknown) makes host_passes return False; nothing is raised to
\* the caller.
C3_ExceptionBoundary ==
  \A p \in Procs :
    ( /\ Returned(p, "affinity")
      /\ reply[p].exc \in LookupErrors \ {"NotFound"} )
    => ret[p] = Return(FALSE)

C3_Witness ==
  /\ Returned(1, "affinity")
  /\ reply[1] = Raise("TimeoutError")
  /\ ret[1] = Return(FALSE)

\* C4: with a non-empty target_host hint, backend_passes is True exactly
\* when the host component of the candidate's identity equals the hint,
\* case and all: a hint that is a proper prefix of the host component, or
\* differs from it in case only, gives False, and an identity without a
\* delimiter is compared whole.
C4_ExactMatch ==
  \A p \in Procs :
    ( Returned(p, "target") /\ HintSet(args[p].request, "target_host") )
    => LET hint == HintValue(args[p].request, "target_host")
           id   == args[p].candidate
           host == BeforeFirst(id, {"@", "#"})
       IN  /\ ret[p].kind = "return"
           /\ ret[p].val <=> (host = hint)
           /\ IsProperPrefix(hint, host) => ~ret[p].val
           /\ SameButCase(hint, host) => ~ret[p].val
           /\ ~HasDelimiter(id) => (ret[p].val <=> (id = hint))

C4_Witness ==
  /\ Returned(1, "target")
  /\ args[1].candidate = <<"a", "A", "@">>
  /\ HintSet(args[1].request, "target_host")
  /\ HintValue(args[1].request, "target_host") = <<"a", "A">>
  /\ ret[1] = Return(TRUE)

\* C5: after a successful lookup that gives a non-empty owning identity O,
\* host_passes is True exactly when the candidate host equals the part of
\* O in front of its first '@'; for O = "nodeA@backend1#poolX", host nodeA
\* passes and host nodeB does not.
C5_AffinityDecision ==
  \A p \in Procs :
    ( /\ Returned(p, "affinity")
      /\ HintSet(args[p].request, "same_volume_host")
      /\ reply[p].exc = "None"
      /\ ~reply[p].attr.isNone
      /\ reply[p].attr.str # <<>> )
    => LET O == reply[p].attr.str
       IN  /\ ret[p] = Return(args[p].candidate = BeforeFirst(O, {"@"}))
           /\ (O = ExampleIdentity /\ args[p].candidate = <<"a">>)
                => ret[p] = Return(TRUE)
           /\ (O = ExampleIdentity /\ args[p].candidate = <<"A">>)
                => ret[p] = Return(FALSE)

C5_Witness ==
  /\ Returned(1, "affinity")
  /\ reply[1] = Ok(PyStr(ExampleIdentity))
  /\ args[1].candidate = <<"a">>
  /\ ret[1] = Return(TRUE)

\* C6 as stated: every evaluation of the affinity filter makes exactly one
\* lookup.
C6_Original ==
  \A p \in Procs : Returned(p, "affinity") => Len(lookups[p]) = 1

\* The evaluation p had a hint and a context to elevate.
LooksUp(p) ==
  /\ HintSet(args[p].request, "same_volume_host")
  /\ args[p].request.context.isSet

C6_Counts ==
  \A p \in Procs :
    /\ Len(lookups[p]) <= 1
    /\ pc[p] = "waiting" => (Len(lookups[p]) = 1 /\ ret[p] = NoResult)
    /\ Returned(p, "affinity") =>
         /\ Len(lookups[p]) = (IF LooksUp(p) THEN 1 ELSE 0)
         /\ ret[p].kind = "return"
         /\ LooksUp(p) <=> reply[p] # NoReply

C6_Fresh ==
  \A p \in Procs :
    (pc[p] = "waiting" /\ pc'[p] = "returned") =>
      /\ reply'[p] = volumes_get(cinder, lookups[p][1].volume_id)
      /\ lookups'[p] = lookups[p]

\* C6, amended: an evaluation whose same_volume_host hint is set (and whose
\* context can be elevated) makes exactly one lookup, one without the hint
\* makes none; the lookup is never repeated, it is answered before
\* host_passes returns, and the answer is Cinder's state at that moment.
C6_OneFreshLookup == []C6_Counts /\ [][C6_Fresh]_vars

C6_Witness ==
  /\ Returned(1, "affinity") /\ Returned(2, "affinity")
  /\ args[1] = args[2]
  /\ Len(lookups[1]) = 1 /\ Len(lookups[2]) = 1
  /\ reply[1] = Ok(PyStr(ExampleIdentity))
  /\ reply[2] = Raise("NotFound")
  /\ changes = 1

\* C7: every lookup is sent with the elevated copy of the request's
\* context, never with the caller's unelevated one, and asks for the
\* volume named by the same_volume_host hint.
C7_ElevatedLookup ==
  \A p \in Procs :
    \A i \in 1..Len(lookups[p]) :
      LET l   == lookups[p][i]
          req == args[p].request
      IN  /\ l.ctxt.isSet /\ l.ctxt.is_admin
          /\ l.ctxt.user = req.context.user
          /\ ~req.context.is_admin => l.ctxt # req.context
          /\ HintSet(req, "same_volume_host")
          /\ l.volume_id = HintValue(req, "same_volume_host")

C7_Witness ==
  /\ pc[1] = "waiting"
  /\ args[1].request.context = UserCtx
  /\ lookups[1] = <<[ctxt |-> AdminCtx, volume_id |-> <<"v">>]>>

\* The result of the call alone: candidate, hints and lookup answer only.
Alone(a, r) ==
  IF a.filter = "target"
  THEN Return(backend_passes(a.candidate, a.request))
  ELSE IF ~HintSet(a.request, "same_volume_host") THEN Return(TRUE)
  ELSE IF r = NoReply THEN Return(FALSE)
  ELSE AfterLookup(a.candidate, r)

\* C8: evaluations are independent. In every interleaving each evaluation
\* returns what it would return alone on its candidate, hints and lookup
\* answer, and an evaluation that waits for Cinder can always go on,
\* whatever the lookups of the others did.
C8_Independent ==
  \A p \in Procs :
    /\ pc[p] = "returned" => ret[p] = Alone(args[p], reply[p])
    /\ pc[p] = "waiting" => ENABLED HostPassesResume(p)

C8_Witness ==
  /\ Returned(1, "affinity") /\ Returned(2, "affinity")
  /\ args[1].candidate # args[2].candidate
  /\ LookupRaised(1)
  /\ ret[1] = Return(FALSE)
  /\ ret[2] = Return(TRUE)
  /\ reply[2] = Ok(PyStr(ExampleIdentity))

\* C9: idempotence. Two evaluations of the same filter on the same
\* candidate and request, with the same answer from Cinder, return the
\* same boolean.
C9_Idempotent ==
  \A p, q \in Procs :
    ( /\ pc[p] = "returned" /\ pc[q] = "returned"
      /\ args[p] = args[q]
      /\ reply[p] = reply[q] )
    => ret[p] = ret[q]

C9_Witness ==
  /\ Returned(1, "affinity") /\ Returned(2, "affinity")
  /\ args[1] = args[2]
  /\ reply[1] = Ok(PyStr(ExampleIdentity))
  /\ reply[2] = reply[1]
  /\ ret[1] = Return(TRUE) /\ ret[2] = Return(TRUE)

\* C10: the hint is never normalized. A target_host hint that contains
\* '@' or '#' matches no candidate, not even the one whose identity is
\* that very string.
C10_HintNotNormalized ==
  \A p \in Procs :
    ( /\ Returned(p, "target")
      /\ HintSet(args[p].request, "target_host")
      /\ HasDelimiter(HintValue(args[p].request, "target_host")) )
    => ret[p] = Return(FALSE)

C10_Witness ==
  /\ Returned(1, "target")
  /\ args[1].candidate = <<"a", "@", "A">>
  /\ HintSet(args[1].request, "target_host")
  /\ HintValue(args[1].request, "target_host") = args[1].candidate
  /\ ret[1] = Return(FALSE)

====
